---------------------------- MODULE Spec2Model ----------------------------
(***************************************************************************)
(* Model of the document re-annotation matcher of AI-PI:                   *)
(* output_commented_document in                                            *)
(*   src/src/ai_pi/document_handling/document_output.py                    *)
(* (src/src/ai_pi/documents/document_output.py is the same loop).          *)
(*                                                                         *)
(* Text is a sequence of one-character strings.  Offsets are Python's      *)
(* 0-based offsets; Slice is Python's s[lo:hi].                            *)
(***************************************************************************)
EXTENDS Integers, Sequences, FiniteSets, TLC

(***************************************************************************)
(* Python string primitives used by the loop                               *)
(***************************************************************************)

\* str.isspace() for one character: the whitespace of the modelled alphabet
IsSpace(c) == c \in {" ", "\n"}

Min2(a, b) == IF a < b THEN a ELSE b

Max2(a, b) == IF a > b THEN a ELSE b

\* s[lo:hi] with Python's clamping of the bounds (0 <= lo)
Slice(s, lo, hi) == SubSeq(s, lo + 1, Min2(hi, Len(s)))

\* s[lo:]
SliceFrom(s, lo) == SubSeq(s, lo + 1, Len(s))

RECURSIVE LStrip(_)
LStrip(s) ==
    IF s = <<>> THEN <<>>
    ELSE IF IsSpace(Head(s)) THEN LStrip(Tail(s)) ELSE s

RECURSIVE RStrip(_)
RStrip(s) ==
    IF s = <<>> THEN <<>>
    ELSE IF IsSpace(s[Len(s)]) THEN RStrip(SubSeq(s, 1, Len(s) - 1)) ELSE s

\* str.strip()
Strip(s) == RStrip(LStrip(s))

\* length of the leading run of non-whitespace characters
RECURSIVE WordLen(_)
WordLen(s) ==
    IF s = <<>> \/ IsSpace(Head(s)) THEN 0 ELSE 1 + WordLen(Tail(s))

\* str.split(): the maximal runs of non-whitespace characters, in order
RECURSIVE Split(_)

\* the first n characters of t are a word, the rest is split in turn
SplitAt(t, n) == <<SubSeq(t, 1, n)>> \o Split(SubSeq(t, n + 1, Len(t)))

\* split of a string that starts with a word, if it is not empty
SplitWords(t) == IF t = <<>> THEN <<>> ELSE SplitAt(t, WordLen(t))

Split(s) == SplitWords(LStrip(s))

\* ' '.join(tokens)
RECURSIVE Join(_)
Join(tokens) ==
    IF tokens = <<>> THEN <<>>
    ELSE IF Len(tokens) = 1 THEN tokens[1]
    ELSE tokens[1] \o <<" ">> \o Join(Tail(tokens))

\* Normalize that strips the ends and leaves the inner whitespace as it is
NormalizeStripOnly(s) == Strip(s)

\* ' '.join(s.split()): the whitespace normalisation of lines 137 and 145
Normalize(s) == Join(Split(s))

\* needle == hay[i : i + len(needle)]
OccursAt(hay, needle, i) ==
    /\ i + Len(needle) <= Len(hay)
    /\ SubSeq(hay, i + 1, i + Len(needle)) = needle

\* needle in hay   (the empty needle is in every string)
Contains(hay, needle) == \E i \in 0..Len(hay) : OccursAt(hay, needle, i)

\* the least element of a non-empty set of integers
MinOf(S) == CHOOSE x \in S : \A y \in S : x <= y

\* the greatest element of a non-empty set of integers
MaxOf(S) == CHOOSE x \in S : \A y \in S : y <= x

\* hay.rindex(needle): the highest offset at which needle occurs
RIndex(hay, needle) == MaxOf({i \in 0..Len(hay) : OccursAt(hay, needle, i)})

\* hay.index(needle): the lowest offset at which needle occurs
Index(hay, needle) == MinOf({i \in 0..Len(hay) : OccursAt(hay, needle, i)})

(***************************************************************************)
(* fuzz.token_set_ratio of fuzzywuzzy, as called at lines 158 and 167,     *)
(* with difflib's SequenceMatcher (fuzzywuzzy's default matcher).          *)
(***************************************************************************)

\* code-point order of the modelled alphabet
Alphabet == <<"\n", " ", "-", "a", "b", "c">>

Ord(c) == CHOOSE i \in 1..Len(Alphabet) : Alphabet[i] = c

\* Python's s < t on strings
RECURSIVE StrLess(_, _)
StrLess(s, t) ==
    IF t = <<>> THEN FALSE
    ELSE IF s = <<>> THEN TRUE
    ELSE IF Head(s) = Head(t) THEN StrLess(Tail(s), Tail(t))
    ELSE Ord(Head(s)) < Ord(Head(t))

\* min(set_of_tokens)
LeastToken(S) == CHOOSE x \in S : \A y \in S \ {x} : StrLess(x, y)

\* sorted(set_of_tokens)
RECURSIVE SortedTokens(_)

SortedFrom(S, m) == <<m>> \o SortedTokens(S \ {m})

SortedTokens(S) == IF S = {} THEN <<>> ELSE SortedFrom(S, LeastToken(S))

\* utils.full_process: every non-alphanumeric character becomes a space,
\* the string is lower-cased (the alphabet has no upper case) and stripped
FullProcess(s) ==
    Strip([i \in 1..Len(s) |-> IF s[i] \in {"a", "b", "c"} THEN s[i] ELSE " "])

\* a[i .. i+k-1] = b[j .. j+k-1], 1-based
Block(a, b, i, j, k) ==
    /\ i + k - 1 <= Len(a)
    /\ j + k - 1 <= Len(b)
    /\ SubSeq(a, i, i + k - 1) = SubSeq(b, j, j + k - 1)

\* the sizes of the common blocks of a and b
BlockSizes(a, b) ==
    {k \in 1..Min2(Len(a), Len(b)) :
        \E i \in 1..Len(a), j \in 1..Len(b) : Block(a, b, i, j, k)}

\* SequenceMatcher.find_longest_match: the longest common block; of those
\* the one starting earliest in a; of those the one starting earliest in b
\* (1-based starts i, j and size k)
LongestAtIn(a, b, k, i) ==
    [i |-> i, k |-> k,
     j |-> MinOf({j \in 1..Len(b) : Block(a, b, i, j, k)})]

LongestOfSize(a, b, k) ==
    LongestAtIn(a, b, k,
        MinOf({i \in 1..Len(a) : \E j \in 1..Len(b) : Block(a, b, i, j, k)}))

FindLongestMatch(a, b) == LongestOfSize(a, b, MaxOf(BlockSizes(a, b)))

\* sum of the sizes of SequenceMatcher.get_matching_blocks(): the longest
\* block, then the same to its left and to its right
RECURSIVE MatchingSize(_, _)

MatchingAround(a, b, m) ==
    m.k + MatchingSize(SubSeq(a, 1, m.i - 1), SubSeq(b, 1, m.j - 1))
        + MatchingSize(SubSeq(a, m.i + m.k, Len(a)),
                       SubSeq(b, m.j + m.k, Len(b)))

MatchingSize(a, b) ==
    IF BlockSizes(a, b) = {} THEN 0
    ELSE MatchingAround(a, b, FindLongestMatch(a, b))

\* Python's round(q + r/T) for 0 <= r < T: halves go to the even side
RoundHalfEven(q, r, T) ==
    IF 2 * r < T THEN q
    ELSE IF 2 * r > T THEN q + 1
    ELSE IF q % 2 = 0 THEN q ELSE q + 1

\* utils.intr(100 * 2.0 * M / T)
RoundRatio(M, T) == RoundHalfEven((200 * M) \div T, (200 * M) % T, T)

\* fuzz.ratio: 100 for equal strings, 0 when one is empty
Ratio(s1, s2) ==
    IF s1 = s2 THEN 100
    ELSE IF s1 = <<>> \/ s2 = <<>> THEN 0
    ELSE RoundRatio(MatchingSize(s1, s2), Len(s1) + Len(s2))

\* max(pairwise) of fuzz._token_set for the three joined strings
PairwiseMax(sorted_sect, combined_1to2, combined_2to1) ==
    Max2(Ratio(sorted_sect, combined_1to2),
         Max2(Ratio(sorted_sect, combined_2to1),
              Ratio(combined_1to2, combined_2to1)))

\* combined_1to2 and combined_2to1 of fuzz._token_set, stripped
CombinedMax(sorted_sect, sorted_1to2, sorted_2to1) ==
    PairwiseMax(sorted_sect,
                Strip(sorted_sect \o <<" ">> \o sorted_1to2),
                Strip(sorted_sect \o <<" ">> \o sorted_2to1))

\* the intersection and the two differences of the token sets, sorted, joined
TokenSetMax(tokens1, tokens2) ==
    CombinedMax(Join(SortedTokens(tokens1 \cap tokens2)),
                Join(SortedTokens(tokens1 \ tokens2)),
                Join(SortedTokens(tokens2 \ tokens1)))

\* set(p.split())
TokenSet(tokens) == {tokens[i] : i \in 1..Len(tokens)}

\* fuzz._token_set on the processed strings p1, p2
ProcessedTokenSetRatio(p1, p2) ==
    IF p1 = <<>> \/ p2 = <<>> THEN 0
    ELSE TokenSetMax(TokenSet(Split(p1)), TokenSet(Split(p2)))

\* fuzz.token_set_ratio(s1, s2)
TokenSetRatio(s1, s2) ==
    ProcessedTokenSetRatio(FullProcess(s1), FullProcess(s2))

(***************************************************************************)
(* Inputs of a run                                                         *)
(***************************************************************************)

\* the most review items in document_review_items
MaxItems == 2

\* paragraph texts: "a b a", and the same words with untidy whitespace
TidyText == <<"a", " ", "b", " ", "a">>

UntidyText == <<" ", "a", " ", " ", "b", " ", "a">>

ParaTexts == { TidyText, UntidyText }

\* the paragraph texts of the input documents a run may be given
DocTexts ==
    { <<TidyText>>, <<UntidyText>>,
      <<TidyText, TidyText>>, <<TidyText, UntidyText>>,
      <<UntidyText, TidyText>>, <<UntidyText, UntidyText>> }

\* the review items a run may be given, as (match string, revision):
\*   ("a b", "c")   verbatim, with a revision
\*   ("a  b", None) verbatim up to whitespace, comment only
\*   ("b a", "c")   verbatim, overlapping "a b" in "a b a"
\*   ("a", " ")     occurs twice; the revision is blank
\*   (" ", "c")     whitespace only
\*   ("a-b", "c")   not verbatim, same words as the paragraph
\*   ("ab", None)   not verbatim, similar to the paragraph
ReviewItems ==
    { [match |-> <<"a", " ", "b">>,      revision |-> <<"c">>],
      [match |-> <<"a", " ", " ", "b">>, revision |-> <<>>],
      [match |-> <<"b", " ", "a">>,      revision |-> <<"c">>],
      [match |-> <<"a">>,                revision |-> <<" ">>],
      [match |-> <<" ">>,                revision |-> <<"c">>],
      [match |-> <<"a", "-", "b">>,      revision |-> <<"c">>],
      [match |-> <<"a", "b">>,           revision |-> <<>>] }

\* match_threshold: the default of line 90 and a permissive setting
DefaultThreshold == 90

Thresholds == { DefaultThreshold, 50 }

\* the comment of line 243 is attached as it is, without the confidence
\* suffix of line 226
NoConf == -1

\* a run's annotation: none, or the comment of review item `of` with the
\* confidence suffix `conf`
NoComment == [of |-> 0, conf |-> NoConf]

\* a paragraph is a sequence of runs
TextRun(t) == [kind |-> "text", text |-> t, comment |-> NoComment]

\* docx.Document(input_doc_path): one run per non-empty paragraph
InputParagraph(t) == IF t = <<>> THEN <<>> ELSE <<TextRun(t)>>

SeqsUpTo(S, n) == UNION {[1..m -> S] : m \in 0..n}

InputDocs == {[i \in DOMAIN ts |-> InputParagraph(ts[i])] : ts \in DocTexts}

\* zip(all_match_strings, all_comments, all_revisions); the comment of the
\* item at index i is the opaque text "comment i"
InputItems == SeqsUpTo(ReviewItems, MaxItems)

\* Paragraph.text: the text of the runs' own w:t children, concatenated
RECURSIVE ParagraphText(_)
ParagraphText(runs) ==
    IF runs = <<>> THEN <<>>
    ELSE (IF Head(runs).kind = "text" THEN Head(runs).text ELSE <<>>)
         \o ParagraphText(Tail(runs))

\* the child tags of the settings element of docx.Document() (line 93):
\* the default template carries no w:trackRevisions
NewDocumentSettings == <<"w:zoom">>

\* enable_track_changes (lines 13-20): settings.append(tag)
enable_track_changes(tags) == Append(tags, "w:trackRevisions")

(***************************************************************************)
(* State of one run of output_commented_document                           *)
(***************************************************************************)

VARIABLES
    doc,                \* doc.paragraphs: the run sequence of each paragraph
    all_matches,        \* the zipped review items (line 129)
    match_threshold,    \* the match_threshold argument
    pc,                 \* "para" | "match" | "done" | "aborted": position
    p,                  \* index of the paragraph of the outer loop (1-based)
    k,                  \* index of the review item of the inner loop
    text,               \* the local `text` (lines 136 and 152)
    normalized_text,    \* the local `normalized_text` (line 137)
    processed_matches,  \* the set of line 132
    matches_found,      \* the counter of line 127
    unmatched,          \* the set reported at lines 263-267
    saved,              \* doc.save(output_doc_path) has run
    output,             \* the paragraphs written by doc.save
    applied,            \* history: one record per successful rewrite
    failed,             \* history: one record per rewrite that raised
    inputDoc,           \* history: the paragraphs as they were loaded
    settings,           \* doc.settings._element: its child tags, in order
    track_calls,        \* history: calls of enable_track_changes on doc
    output_path         \* the file at output_doc_path:
                        \*   "absent" | "partial" | "complete"

\* the state of the other components of the repository, each idle while
\* output_commented_document runs

VARIABLES
    pipeline_class,     \* "ProcessingPipeline" | "Pipeline"
    config_steps,       \* config.steps: the configured steps, in order
    config_validation,  \* config.validation
    processors,         \* self.processors: the keys registered by __init__
    data,               \* the data dict of execute: key -> where it is from
    step_index,         \* index of the step the loop of execute is at
    execute_state,      \* "run" | "returned" | "raised" | "idle"
    error,              \* the exception that left execute
    process_calls,      \* history: the steps whose _process was invoked,
                        \*   each with the keys of data it was given
    stored              \* history: the steps whose result was stored

pipelineVars == <<pipeline_class, config_steps, config_validation, processors,
                  data, step_index, execute_state, error, process_calls,
                  stored>>

NoError == [type |-> "none", raised_by |-> "none"]

\* no pipeline has been built
PipelineIdle ==
    /\ pipeline_class = "none"
    /\ config_steps = <<>>
    /\ config_validation = TRUE
    /\ processors = {}
    /\ data = <<>>
    /\ step_index = 1
    /\ execute_state = "idle"
    /\ error = NoError
    /\ process_calls = <<>>
    /\ stored = <<>>

VARIABLES
    parsed_response,    \* the review JSON _process_review_items is given
    section_text,       \* the text of the section under review
    item_index,         \* index of the item the loop is at
    review_items,       \* the lists match_strings, comments, revisions
    included,           \* history: the indices of the items appended
    review_state        \* "parse" | "loop" | "returned" | "idle"

reviewVars == <<parsed_response, section_text, item_index, review_items,
                included, review_state>>

EmptyReview == [match_strings |-> <<>>, comments |-> <<>>, revisions |-> <<>>]

\* _process_review_items has not been called
ReviewIdle ==
    /\ parsed_response = <<>>
    /\ section_text = <<>>
    /\ item_index = 1
    /\ review_items = EmptyReview
    /\ included = <<>>
    /\ review_state = "idle"

VARIABLES
    uploaded_files,     \* main.uploaded_files: file id -> file info
    response            \* the last answer of an endpoint

webVars == <<uploaded_files, response>>

NoResponse == [endpoint |-> "none", file_id |-> 0, code |-> 0]

\* the web application has served no request
WebIdle ==
    /\ uploaded_files = <<>>
    /\ response = NoResponse

VARIABLES
    unicode_input,      \* text: the argument of normalize_unicode
    unicode_normalized, \* normalized
    unicode_i,          \* i, 0-based
    unicode_result,     \* ''.join(result)
    unicode_state       \* "call" | "loop" | "returned" | "idle"

unicodeVars == <<unicode_input, unicode_normalized, unicode_i, unicode_result,
                 unicode_state>>

\* normalize_unicode has not been called
UnicodeIdle ==
    /\ unicode_input = <<>>
    /\ unicode_normalized = <<>>
    /\ unicode_i = 0
    /\ unicode_result = <<>>
    /\ unicode_state = "idle"

\* the state outside output_commented_document
auxVars == <<pipelineVars, reviewVars, webVars, unicodeVars>>

docVars == <<doc, all_matches, match_threshold, pc, p, k, text,
             normalized_text, processed_matches, matches_found, unmatched,
             saved, output, applied, failed, inputDoc, settings, track_calls,
             output_path>>

vars == <<doc, all_matches, match_threshold, pc, p, k, text, normalized_text,
          processed_matches, matches_found, unmatched, saved, output,
          applied, failed, inputDoc, settings, track_calls, output_path,
          auxVars>>

Init ==
    /\ doc \in InputDocs
    /\ all_matches \in InputItems
    /\ match_threshold \in Thresholds
    /\ pc = "para"
    /\ p = 1
    /\ k = 1
    /\ text = <<>>
    /\ normalized_text = <<>>
    /\ processed_matches = {}
    /\ matches_found = 0
    /\ unmatched = {}
    /\ saved = FALSE
    /\ output = <<>>
    /\ applied = <<>>
    /\ failed = <<>>
    /\ inputDoc = doc
    /\ settings = enable_track_changes(NewDocumentSettings)
    /\ track_calls = 1
    /\ output_path = "absent"
    /\ PipelineIdle /\ ReviewIdle /\ WebIdle /\ UnicodeIdle

(***************************************************************************)
(* Locating one review item in the current paragraph (lines 145-188)       *)
(***************************************************************************)

\* the window start offsets of line 165
WindowStarts(txt, normalized_match) ==
    0..(Max2(0, Len(txt) - 2 * Len(normalized_match) + 1) - 1)

\* window_score of line 167 for the window starting at i
WindowScore(txt, normalized_match, i) ==
    TokenSetRatio(normalized_match,
                  Slice(txt, i, i + 2 * Len(normalized_match)))

\* the first offset of W whose score is the highest: max() of line 171
\* keeps the first of equal scores
FirstBest(W, score) ==
    MinOf({i \in W : \A j \in W : score[j] <= score[i]})

\* best_window[1] of lines 171-172
BestWindowStart(txt, normalized_match) ==
    FirstBest(WindowStarts(txt, normalized_match),
              [i \in WindowStarts(txt, normalized_match) |->
                    WindowScore(txt, normalized_match, i)])

\* The outcome of lines 145-188 for the match string `raw`:
\*   kind  "exact" | "fuzzy" | "error" (max() of no windows raised) | "none"
\*   ratio match_ratio, loc match_location, text and match the locals
\*   `text` and `match` as the rewrite of lines 190-247 will see them

\* LocateFuzzy with the threshold taken as a fraction of 1: the ratio, on
\* its scale of 0..100, is compared with match_threshold / 100
LocateFuzzyScaled(txt, raw, normalized_match, fuzzy_ratio, threshold) ==
    IF 100 * fuzzy_ratio < threshold
    THEN [kind |-> "none", ratio |-> fuzzy_ratio, loc |-> 0,
          text |-> txt, match |-> raw]
    ELSE IF WindowStarts(txt, normalized_match) = {}
    THEN [kind |-> "error", ratio |-> fuzzy_ratio, loc |-> 0,
          text |-> txt, match |-> raw]
    ELSE [kind |-> "fuzzy", ratio |-> fuzzy_ratio,
          loc |-> BestWindowStart(txt, normalized_match),
          text |-> txt, match |-> raw]

\* lines 158-188: the fuzzy branch, match_ratio being fuzzy_ratio
LocateFuzzy(txt, raw, normalized_match, fuzzy_ratio, threshold) ==
    IF fuzzy_ratio < threshold
    THEN [kind |-> "none", ratio |-> fuzzy_ratio, loc |-> 0,
          text |-> txt, match |-> raw]
    ELSE IF WindowStarts(txt, normalized_match) = {}
    THEN [kind |-> "error", ratio |-> fuzzy_ratio, loc |-> 0,
          text |-> txt, match |-> raw]
    ELSE [kind |-> "fuzzy", ratio |-> fuzzy_ratio,
          loc |-> BestWindowStart(txt, normalized_match),
          text |-> txt, match |-> raw]

\* LocateNormalized with the similarity ratio consulted first: the verbatim
\* test is reached only when the ratio is below the threshold
LocateFuzzyFirst(txt, full_context, raw, normalized_match, threshold) ==
    IF TokenSetRatio(normalized_match, full_context) >= threshold
    THEN LocateFuzzy(txt, raw, normalized_match,
                     TokenSetRatio(normalized_match, full_context),
                     threshold)
    ELSE IF Contains(full_context, normalized_match)
    THEN [kind |-> "exact", ratio |-> 100,
          loc |-> Index(full_context, normalized_match),
          text |-> full_context, match |-> normalized_match]
    ELSE [kind |-> "none",
          ratio |-> TokenSetRatio(normalized_match, full_context),
          loc |-> 0, text |-> txt, match |-> raw]

\* lines 148-188 for the normalized match string
LocateNormalized(txt, full_context, raw, normalized_match, threshold) ==
    IF Contains(full_context, normalized_match)
    THEN [kind |-> "exact", ratio |-> 100,
          loc |-> Index(full_context, normalized_match),
          text |-> full_context, match |-> normalized_match]
    ELSE LocateFuzzy(txt, raw, normalized_match,
                     TokenSetRatio(normalized_match, full_context),
                     threshold)

\* lines 145-188
Locate(txt, ntext, raw, threshold) ==
    LocateNormalized(txt, ntext, raw, Normalize(raw), threshold)

(***************************************************************************)
(* Rewriting the paragraph for one located item (lines 190-247)            *)
(***************************************************************************)

\* `revision and revision.strip()` of line 203
HasRevision(revision) == revision # <<>> /\ Strip(revision) # <<>>

\* paragraph.add_run(t) guarded by `if t:` (lines 199 and 246)
OptionalRun(t) == IF t = <<>> THEN <<>> ELSE <<TextRun(t)>>

\* the runs of the deleted/inserted pair (lines 205-239) or of the
\* commented run (lines 242-243) for item number item
AnnotationRuns(m, revision, item, ratio) ==
    IF HasRevision(revision)
    THEN << [kind |-> "del", text |-> m,
             comment |-> [of |-> item, conf |-> ratio]],
            [kind |-> "ins", text |-> revision, comment |-> NoComment] >>
    ELSE << [kind |-> "text", text |-> m,
             comment |-> [of |-> item, conf |-> NoConf]] >>

\* the paragraph after lines 192-247 ran to the end
Rewrite(txt, loc, m, revision, item, ratio) ==
    OptionalRun(Slice(txt, 0, loc))
    \o AnnotationRuns(m, revision, item, ratio)
    \o OptionalRun(SliceFrom(txt, loc + Len(m)))

\* the paragraph when add_comment (line 226 or 243) raised: it was cleared,
\* the text before the match and the run of the match were added
PartialRewrite(txt, loc, m, revision) ==
    OptionalRun(Slice(txt, 0, loc))
    \o << [kind |-> IF HasRevision(revision) THEN "del" ELSE "text",
           text |-> m, comment |-> NoComment] >>

(***************************************************************************)
(* The steps of the two loops (lines 135-260) and the report (262-271)     *)
(***************************************************************************)

CurrentItem == all_matches[k]

Located == Locate(text, normalized_text, CurrentItem.match, match_threshold)

AtItem ==
    /\ pc = "match"
    /\ k <= Len(all_matches)

Pending == CurrentItem.match \notin processed_matches

\* lines 135-137: the outer loop enters paragraph p and reads its text
StartParagraph ==
    /\ pc = "para"
    /\ p <= Len(doc)
    /\ text' = Strip(ParagraphText(doc[p]))
    /\ normalized_text' = Normalize(Strip(ParagraphText(doc[p])))
    /\ k' = 1
    /\ pc' = "match"
    /\ UNCHANGED <<doc, all_matches, match_threshold, p, processed_matches,
                   matches_found, unmatched, saved, output, applied, failed,
                   inputDoc, settings,
                   track_calls, output_path,
                   auxVars>>

\* lines 142-143: the match string is in processed_matches
SkipProcessed ==
    /\ AtItem
    /\ ~Pending
    /\ k' = k + 1
    /\ UNCHANGED <<doc, all_matches, match_threshold, pc, p, text,
                   normalized_text, processed_matches, matches_found,
                   unmatched, saved, output, applied, failed, inputDoc, settings,
                   track_calls, output_path,
                   auxVars>>

\* the inner loop passes to the next item and nothing else changes
PassOver ==
    /\ k' = k + 1
    /\ UNCHANGED <<doc, all_matches, match_threshold, pc, p, text,
                   normalized_text, processed_matches, matches_found,
                   unmatched, saved, output, applied, failed, inputDoc, settings,
                   track_calls, output_path,
                   auxVars>>

\* lines 187-188: no exact match and the ratio is below match_threshold
NoCandidate ==
    /\ AtItem
    /\ Pending
    /\ Located.kind = "none"
    /\ PassOver

\* lines 183-186: the ratio passed but `text` is shorter than one window,
\* max() of the empty window list raised and the item is passed over
FuzzyWindowError ==
    /\ AtItem
    /\ Pending
    /\ Located.kind = "error"
    /\ PassOver

\* the history record of a rewrite for the located candidate l
AppliedRecord(l) ==
    [item |-> k, para |-> p, kind |-> l.kind, ratio |-> l.ratio,
     start |-> l.loc, end |-> l.loc + Len(l.match),
     context |-> normalized_text,
     before |-> Slice(l.text, 0, l.loc),
     written |-> l.match,
     after |-> SliceFrom(l.text, l.loc + Len(l.match))]

\* Apply that reads the paragraph again after rewriting it: the locals text
\* and normalized_text follow the rewritten paragraph
ApplyAndReread(l) ==
    /\ l.kind \in {"exact", "fuzzy"}
    /\ doc' = [doc EXCEPT ![p] =
                 Rewrite(l.text, l.loc, l.match, CurrentItem.revision,
                         k, l.ratio)]
    /\ text' = Strip(ParagraphText(doc'[p]))
    /\ normalized_text' = Normalize(Strip(ParagraphText(doc'[p])))
    /\ processed_matches' = processed_matches \cup {l.match}
    /\ applied' = Append(applied, AppliedRecord(l))
    /\ matches_found' = matches_found + 1
    /\ k' = k + 1
    /\ UNCHANGED <<all_matches, match_threshold, pc, p, unmatched, saved,
                   output, failed, inputDoc, settings, track_calls,
                   output_path,
                   auxVars>>

\* lines 190-256 for the located candidate l
Apply(l) ==
    /\ l.kind \in {"exact", "fuzzy"}
    /\ doc' = [doc EXCEPT ![p] =
                 Rewrite(l.text, l.loc, l.match, CurrentItem.revision,
                         k, l.ratio)]
    /\ text' = l.text
    /\ processed_matches' = processed_matches \cup {l.match}
    /\ applied' = Append(applied, AppliedRecord(l))
    /\ matches_found' = matches_found + 1
    /\ k' = k + 1
    /\ UNCHANGED <<all_matches, match_threshold, pc, p, normalized_text,
                   unmatched, saved, output, failed, inputDoc, settings,
                   track_calls, output_path,
                   auxVars>>

\* lines 190-256: the paragraph is rewritten and the match is recorded
ApplyMatch ==
    /\ AtItem
    /\ Pending
    /\ Apply(Located)

\* lines 190-226/243 and 258-260 for the located candidate l
ApplyRaises(l) ==
    /\ l.kind \in {"exact", "fuzzy"}
    /\ doc' = [doc EXCEPT ![p] =
                 PartialRewrite(l.text, l.loc, l.match,
                                CurrentItem.revision)]
    /\ text' = l.text
    /\ failed' = Append(failed, [item |-> k, para |-> p])
    /\ k' = k + 1
    /\ UNCHANGED <<all_matches, match_threshold, pc, p, normalized_text,
                   processed_matches, matches_found, unmatched, saved, output,
                   applied, inputDoc, settings,
                   track_calls, output_path,
                   auxVars>>

\* lines 190-226/243 and 258-260: add_comment raised after the paragraph
\* was cleared; the exception is printed and the loop goes on
ApplyFails ==
    /\ AtItem
    /\ Pending
    /\ ApplyRaises(Located)

\* the inner loop is exhausted: the outer loop moves to the next paragraph
EndParagraph ==
    /\ pc = "match"
    /\ k > Len(all_matches)
    /\ p' = p + 1
    /\ pc' = "para"
    /\ UNCHANGED <<doc, all_matches, match_threshold, k, text,
                   normalized_text, processed_matches, matches_found,
                   unmatched, saved, output, applied, failed, inputDoc, settings,
                   track_calls, output_path,
                   auxVars>>

\* Unmatched without the set difference: every match string is reported
UnmatchedOfAll(items, processed) == {items[i].match : i \in DOMAIN items}

\* set(m[0] for m in all_matches) - processed_matches   (line 263)
Unmatched(items, processed) ==
    {items[i].match : i \in DOMAIN items} \ processed

\* lines 262-271: the unmatched report and doc.save
Report ==
    /\ pc = "para"
    /\ p > Len(doc)
    /\ unmatched' = Unmatched(all_matches, processed_matches)
    /\ output' = doc
    /\ saved' = TRUE
    /\ output_path' = "complete"
    /\ pc' = "done"
    /\ UNCHANGED <<doc, all_matches, match_threshold, p, k, text,
                   normalized_text, processed_matches, matches_found,
                   applied, failed, inputDoc, settings, track_calls,
                   auxVars>>

\* lines 262-271 when doc.save raises or the process is stopped while the
\* package is being written: the report was printed, the exception leaves
\* output_commented_document, and what was written so far is at
\* output_doc_path, the path doc.save was given (line 271)
SaveFails ==
    /\ pc = "para"
    /\ p > Len(doc)
    /\ unmatched' = Unmatched(all_matches, processed_matches)
    /\ output_path' = "partial"
    /\ pc' = "aborted"
    /\ UNCHANGED <<doc, all_matches, match_threshold, p, k, text,
                   normalized_text, processed_matches, matches_found, saved,
                   output, applied, failed, inputDoc, settings, track_calls,
                   auxVars>>

Next ==
    \/ StartParagraph
    \/ SkipProcessed
    \/ NoCandidate
    \/ FuzzyWindowError
    \/ ApplyMatch
    \/ ApplyFails
    \/ EndParagraph
    \/ Report
    \/ SaveFails

Spec == Init /\ [][Next]_vars

(***************************************************************************)
(* Vocabulary of the properties                                            *)
(***************************************************************************)

Finished == pc = "done"

\* the match string of the item of a history record
MatchOf(rec) == all_matches[rec.item].match

\* the normalized text paragraph q had when the document was loaded
InputText(q) == Normalize(Strip(ParagraphText(inputDoc[q])))

\* item i is in paragraph q: verbatim after normalisation, or with a
\* similarity ratio at or above the threshold
FoundIn(i, q) ==
    \/ Contains(InputText(q), Normalize(all_matches[i].match))
    \/ TokenSetRatio(Normalize(all_matches[i].match), InputText(q))
         >= match_threshold

FoundAnywhere(i) == \E q \in DOMAIN inputDoc : FoundIn(i, q)

\* half-open interval overlap of the spans of two history records
Overlap(a, b) == a.start < b.end /\ b.start < a.end

\* the runs of a paragraph carry the annotation of item i: its commented
\* run, or its deleted run directly followed by the inserted revision
Annotated(runs, i) ==
    \E r \in DOMAIN runs :
        /\ runs[r].comment.of = i
        /\ \/ ~HasRevision(all_matches[i].revision) /\ runs[r].kind = "text"
           \/ /\ HasRevision(all_matches[i].revision)
              /\ runs[r].kind = "del"
              /\ r + 1 \in DOMAIN runs
              /\ runs[r + 1].kind = "ins"
              /\ runs[r + 1].text = all_matches[i].revision

\* some rewrite of paragraph q ran to the end
AppliedTo(q) == \E i \in DOMAIN applied : applied[i].para = q

(***************************************************************************)
(* C1-C10                                                                  *)
(***************************************************************************)

\* C1 (as claimed): each review item is applied at most once in a run,
\* whatever whitespace its match string contains.
C1_AtMostOnceApplication ==
    \A i, j \in DOMAIN applied : applied[i].item = applied[j].item => i = j

\* C2 (as claimed): at the end of a run the applied count plus the number
\* of items reported unmatched equals the number of input items, and no
\* applied item is listed as unmatched.
C2_ExactPartition ==
    Finished =>
        /\ matches_found + Cardinality(unmatched) = Len(all_matches)
        /\ \A i \in DOMAIN applied : MatchOf(applied[i]) \notin unmatched

\* C3 (as claimed): every item counted as applied still has its annotation
\* in the paragraph it was applied to, in the document that is saved.
C3_NoDroppedFeedback ==
    Finished =>
        \A i \in DOMAIN applied :
            Annotated(output[applied[i].para], applied[i].item)

\* C4 (as claimed): the text written as the deleted or commented run is the
\* paragraph's own text at the matched span: unchanged prefix + that text +
\* unchanged suffix is the paragraph's normalized text before the rewrite.
C4_OriginalTextPreserved ==
    \A i \in DOMAIN applied :
        /\ applied[i].before \o applied[i].written \o applied[i].after
             = applied[i].context
        /\ applied[i].written
             = Slice(applied[i].context, applied[i].start, applied[i].end)

\* C5 (as claimed): an item whose match string is empty or only whitespace
\* never matches; no paragraph is rewritten because of it.
C5_EmptyNeedleRejected ==
    /\ \A i \in DOMAIN applied : Normalize(MatchOf(applied[i])) # <<>>
    /\ \A i \in DOMAIN failed : Normalize(MatchOf(failed[i])) # <<>>

\* C6 (as claimed): within one paragraph the spans of the applied items are
\* pairwise non-overlapping, and a later span in the paragraph is never
\* laid out before an earlier one.
C6_NoOverlap ==
    \A i, j \in DOMAIN applied :
        (i # j /\ applied[i].para = applied[j].para) =>
            /\ ~Overlap(applied[i], applied[j])
            /\ \A r, t \in DOMAIN doc[applied[i].para] :
                 ( /\ doc[applied[i].para][r].comment.of = applied[i].item
                   /\ doc[applied[i].para][t].comment.of = applied[j].item
                   /\ applied[i].start < applied[j].start ) => r < t

\* C7 (as claimed): of two pending items that match overlapping spans of
\* one paragraph only one is applied there: no step applies an item to a
\* paragraph over a span that overlaps a span already applied to it.
C7_ConflictResolution ==
    [][ Len(applied') > Len(applied) =>
          \A i \in DOMAIN applied :
              applied[i].para = p =>
                  ~Overlap(applied[i], applied'[Len(applied')]) ]_vars

\* C8: an item found in no paragraph, neither verbatim nor with a ratio at
\* or above the threshold, is listed as unmatched at the end of the run, and
\* a paragraph of the saved document differs from the loaded one only where
\* some item was found; with no item found the output is that of a run
\* with zero review items.
C8_UnmatchedReporting ==
    Finished =>
        /\ \A i \in DOMAIN all_matches :
              ~FoundAnywhere(i) => all_matches[i].match \in unmatched
        /\ \A q \in DOMAIN output :
              output[q] # inputDoc[q] =>
                  \E i \in DOMAIN all_matches : FoundIn(i, q)

\* C8 witness: a finished run in which an item found nowhere is reported
\* while another item was applied.
C8_Witness ==
    /\ Finished
    /\ matches_found > 0
    /\ \E i \in DOMAIN all_matches :
          ~FoundAnywhere(i) /\ all_matches[i].match \in unmatched

\* C9 (as claimed): a paragraph to which no item was successfully applied
\* has in the saved output exactly the content it had in the input, also
\* when an attempt to rewrite it raised part-way.
C9_UntouchedParagraphs ==
    Finished =>
        \A q \in DOMAIN output : ~AppliedTo(q) => output[q] = inputDoc[q]

\* C10 (as claimed): a rewrite that raises never aborts the run: every
\* paragraph is still visited, the document is saved, and the item whose
\* rewrite raised is reported as unmatched.
C10_ApplyFailureIsolation ==
    Finished =>
        /\ saved
        /\ p > Len(doc)
        /\ \A i \in DOMAIN failed : MatchOf(failed[i]) \in unmatched

(***************************************************************************)
(* C11-C20                                                                 *)
(***************************************************************************)

\* the normalized match string of a history record is verbatim in the
\* normalized text the paragraph had when the record was made
VerbatimIn(rec) == Contains(rec.context, Normalize(MatchOf(rec)))

\* C11: whenever the whitespace-normalized match string is a substring of
\* the whitespace-normalized paragraph text, the item is located as an exact
\* match with confidence 100 at the first verbatim occurrence, and every
\* rewrite made for such an item is recorded as exact with confidence 100,
\* whatever the similarity ratio is.
C11_ExactMatchPrecedence ==
    /\ \A i \in DOMAIN applied :
          VerbatimIn(applied[i]) =>
              applied[i].kind = "exact" /\ applied[i].ratio = 100
    /\ ( /\ AtItem
         /\ Pending
         /\ Contains(normalized_text, Normalize(CurrentItem.match)) ) =>
            /\ Located.kind = "exact"
            /\ Located.ratio = 100
            /\ Located.loc
                 = Index(normalized_text, Normalize(CurrentItem.match))

\* C11 witness: an item applied as an exact match although its similarity
\* ratio passes the threshold and the paragraph has room for a window.
C11_Witness ==
    \E i \in DOMAIN applied :
        /\ applied[i].kind = "exact"
        /\ applied[i].ratio = 100
        /\ TokenSetRatio(Normalize(MatchOf(applied[i])), applied[i].context)
             >= match_threshold
        /\ WindowStarts(applied[i].context, Normalize(MatchOf(applied[i])))
             # {}

\* the record of the rewrite a step has just completed
LastApplied(history) == history[Len(history)]

\* the segments claimed for a rewrite with a revision: the paragraph text
\* txt cut at the recorded span, the span itself deleted and commented
RevisionSegments(txt, rec, revision) ==
    OptionalRun(Slice(txt, 0, rec.start))
    \o << [kind |-> "del", text |-> Slice(txt, rec.start, rec.end),
           comment |-> [of |-> rec.item, conf |-> rec.ratio]],
          [kind |-> "ins", text |-> revision, comment |-> NoComment] >>
    \o OptionalRun(SliceFrom(txt, rec.end))

\* C12 (as claimed): a step that applies an item whose revision X has
\* content to a paragraph whose text is prefix + B + suffix, B the matched
\* span, leaves the paragraph as exactly [prefix, deleted B with the
\* comment, inserted X, suffix], with no run for an empty prefix or suffix.
C12_RevisionRoundTrip ==
    [][ (Len(applied') > Len(applied) /\ HasRevision(CurrentItem.revision)) =>
            doc'[p] = RevisionSegments(text', LastApplied(applied'),
                                       CurrentItem.revision) ]_vars

\* the segments claimed for a comment-only rewrite: the paragraph text txt
\* cut at the recorded span, the span itself kept and commented, the
\* comment carrying the confidence suffix conf or none (NoConf)
CommentSegments(txt, rec, conf) ==
    OptionalRun(Slice(txt, 0, rec.start))
    \o << [kind |-> "text", text |-> Slice(txt, rec.start, rec.end),
           comment |-> [of |-> rec.item, conf |-> conf]] >>
    \o OptionalRun(SliceFrom(txt, rec.end))

\* some run of the paragraph is a tracked deletion or insertion
HasTrackedChange(runs) ==
    \E r \in DOMAIN runs : runs[r].kind \in {"del", "ins"}

\* C13 (as claimed): a step that applies an item whose revision is null or
\* empty leaves the paragraph as [prefix, one run holding the matched
\* original text with the comment, suffix] with no deleted and no inserted
\* run; a deleted/inserted pair appears only for a non-empty revision.
C13_CommentOnlyBranch ==
    [][ Len(applied') > Len(applied) =>
          /\ CurrentItem.revision = <<>> =>
                \E conf \in {NoConf, LastApplied(applied').ratio} :
                    doc'[p] = CommentSegments(text', LastApplied(applied'),
                                              conf)
          /\ HasTrackedChange(doc'[p]) => CurrentItem.revision # <<>> ]_vars

\* the current item is decided in the current paragraph by the fuzzy
\* branch: it is pending and its normalized match string is not verbatim
DecidedByRatio ==
    /\ AtItem
    /\ Pending
    /\ ~Contains(normalized_text, Normalize(CurrentItem.match))

\* match_ratio of line 158 for the current item
CurrentRatio == TokenSetRatio(Normalize(CurrentItem.match), normalized_text)

\* C14 (as claimed): an item that is not verbatim in the paragraph is
\* matched there when its similarity ratio is at or above match_threshold,
\* with a confidence strictly below 100, and is not matched there when the
\* ratio is below; an item below the threshold in every paragraph is
\* reported unmatched.
C14_FuzzyThreshold ==
    [][ /\ (DecidedByRatio /\ k' = k + 1) =>
              IF CurrentRatio >= match_threshold
              THEN \/ Len(failed') > Len(failed)
                   \/ /\ Len(applied') > Len(applied)
                      /\ LastApplied(applied').kind = "fuzzy"
                      /\ LastApplied(applied').ratio < 100
              ELSE applied' = applied /\ failed' = failed /\ doc' = doc
        /\ pc' = "done" =>
              \A i \in DOMAIN all_matches :
                  ~FoundAnywhere(i) => all_matches[i].match \in unmatched'
      ]_vars

\* the confidence suffix of the comment that a paragraph's runs carry for
\* item number item is conf wherever the claim asks for a suffix: on the
\* deleted run always, on a commented run when the match was not at 100
SuffixIs(runs, item, conf) ==
    \A r \in DOMAIN runs :
        runs[r].comment.of = item =>
            \/ runs[r].comment.conf = conf
            \/ runs[r].kind = "text" /\ conf = 100

\* C15 (as claimed): the comment attached to the deleted run of an item with
\* a revision ends in "(Match confidence: N%)" with N the match confidence,
\* and so does the comment of a comment-only item matched with a confidence
\* below 100.
C15_CommentTextFormat ==
    [][ Len(applied') > Len(applied) =>
            SuffixIs(doc'[p], k, LastApplied(applied').ratio) ]_vars

(***************************************************************************)
(* enable_track_changes on its own: any settings element, called again     *)
(***************************************************************************)

\* the most child tags of a settings element before the calls
MaxSettings == 3

\* the most calls of enable_track_changes on one document
MaxCalls == 2

\* child tags a settings element may carry
SettingsTags == {"w:zoom", "w:compat", "w:trackRevisions"}

\* a document whose settings are any sequence of tags, no call made yet
TrackInit ==
    /\ settings \in SeqsUpTo(SettingsTags, MaxSettings)
    /\ track_calls = 0
    /\ pc = "settings"
    /\ doc = <<>>
    /\ all_matches = <<>>
    /\ match_threshold = DefaultThreshold
    /\ p = 1
    /\ k = 1
    /\ text = <<>>
    /\ normalized_text = <<>>
    /\ processed_matches = {}
    /\ matches_found = 0
    /\ unmatched = {}
    /\ saved = FALSE
    /\ output = <<>>
    /\ applied = <<>>
    /\ failed = <<>>
    /\ inputDoc = <<>>
    /\ output_path = "absent"
    /\ PipelineIdle /\ ReviewIdle /\ WebIdle /\ UnicodeIdle

\* one call enable_track_changes(doc)
EnableTrackChanges ==
    /\ pc = "settings"
    /\ track_calls < MaxCalls
    /\ settings' = enable_track_changes(settings)
    /\ track_calls' = track_calls + 1
    /\ UNCHANGED <<doc, all_matches, match_threshold, pc, p, k, text,
                   normalized_text, processed_matches, matches_found,
                   unmatched, saved, output, applied, failed, inputDoc,
                   output_path,
                   auxVars>>

TrackNext == EnableTrackChanges

TrackSpec == TrackInit /\ [][TrackNext]_vars

\* the number of w:trackRevisions children of a settings element
TrackFlags(tags) ==
    Cardinality({i \in DOMAIN tags : tags[i] = "w:trackRevisions"})

\* C16 (as claimed): once enable_track_changes has been called on a document
\* one or more times, whatever its settings held before, the settings hold
\* exactly one trackRevisions flag.
C16_TrackChangesIdempotent ==
    track_calls >= 1 => TrackFlags(settings) = 1

(***************************************************************************)
(* The paragraph loop on paragraphs of any text, with no review items      *)
(***************************************************************************)

\* the most characters of a paragraph's text
MaxLen == 4

\* characters of a paragraph's text: letters, the space and the line break
TextChars == {"a", "b", " ", "\n"}

\* a document of one paragraph with any text, and no review items
NormalizeInit ==
    /\ doc \in {<<InputParagraph(t)>> : t \in SeqsUpTo(TextChars, MaxLen)}
    /\ all_matches = <<>>
    /\ match_threshold = DefaultThreshold
    /\ pc = "para"
    /\ p = 1
    /\ k = 1
    /\ text = <<>>
    /\ normalized_text = <<>>
    /\ processed_matches = {}
    /\ matches_found = 0
    /\ unmatched = {}
    /\ saved = FALSE
    /\ output = <<>>
    /\ applied = <<>>
    /\ failed = <<>>
    /\ inputDoc = doc
    /\ settings = enable_track_changes(NewDocumentSettings)
    /\ track_calls = 1
    /\ output_path = "absent"
    /\ PipelineIdle /\ ReviewIdle /\ WebIdle /\ UnicodeIdle

\* the steps a run takes when all_matches is empty
NormalizeNext ==
    \/ StartParagraph
    \/ EndParagraph
    \/ Report
    \/ SaveFails

NormalizeSpec == NormalizeInit /\ [][NormalizeNext]_vars

\* the non-whitespace characters of s, in order
NonSpace(s) == SelectSeq(s, LAMBDA c : ~IsSpace(c))

\* s has no line break, no space at either end and no two spaces in a row
Collapsed(s) ==
    \A i \in DOMAIN s :
        /\ s[i] # "\n"
        /\ s[i] = " " => (1 < i /\ i < Len(s) /\ s[i + 1] # " ")

\* C17: the normalized text of a paragraph is a fixed point of the
\* normalization, has every run of whitespace (line breaks included)
\* collapsed to one space and both ends stripped, and keeps the
\* paragraph's non-whitespace characters unchanged and in order.
C17_IdempotentNormalization ==
    pc = "match" =>
        /\ Normalize(normalized_text) = normalized_text
        /\ Normalize(Normalize(ParagraphText(doc[p])))
             = Normalize(ParagraphText(doc[p]))
        /\ normalized_text = Normalize(ParagraphText(doc[p]))
        /\ Collapsed(normalized_text)
        /\ NonSpace(normalized_text) = NonSpace(ParagraphText(doc[p]))

\* C17 witness: a paragraph with a line break and untidy whitespace whose
\* normalized text differs from its stripped text.
C17_Witness ==
    /\ pc = "match"
    /\ \E i \in DOMAIN text : text[i] = "\n"
    /\ normalized_text # text
    /\ Len(normalized_text) >= 3

\* C18 (as claimed): the document is written to a temporary path and moved
\* to output_doc_path only after the write succeeded: when the save has
\* failed or been interrupted, output_doc_path holds no partially written
\* file of this run.
C18_AtomicSave ==
    /\ output_path # "partial"
    /\ pc = "aborted" => output_path = "absent"
    /\ output_path = "complete" => saved

\* a rewrite for item number item was tried in paragraph q
TriedIn(item, q) ==
    \/ \E j \in DOMAIN applied : applied[j].item = item /\ applied[j].para = q
    \/ \E j \in DOMAIN failed : failed[j].item = item /\ failed[j].para = q

\* C19 (as claimed): rewrites are made in document order of the paragraphs;
\* an applied item is out of the pending pool from then on; and it was
\* applied in the first paragraph that holds its match string verbatim.
C19_FirstParagraphWins ==
    /\ \A i, j \in DOMAIN applied :
          i < j => applied[i].para <= applied[j].para
    /\ \A i \in DOMAIN applied :
          MatchOf(applied[i]) \in processed_matches
    /\ \A i \in DOMAIN applied :
          \A q \in 1..(applied[i].para - 1) :
              Contains(InputText(q), Normalize(MatchOf(applied[i]))) =>
                  TriedIn(applied[i].item, q)

\* C20 (as claimed): an item whose rewrite raised is settled as failed: no
\* rewrite is tried for it again, in that paragraph or a later one, and at
\* the end of the run it is reported as unmatched.
C20_FailedApplyTerminal ==
    /\ \A i \in DOMAIN failed :
          \A j \in DOMAIN applied :
              applied[j].item = failed[i].item =>
                  applied[j].para < failed[i].para
    /\ \A i, j \in DOMAIN failed :
          failed[i].item = failed[j].item => i = j
    /\ Finished =>
          \A i \in DOMAIN failed : MatchOf(failed[i]) \in unmatched

(***************************************************************************)
(* C21-C24                                                                 *)
(***************************************************************************)

\* the offsets at which the normalized match string of a history record
\* occurs in the normalized text the paragraph had
Occurrences(rec) ==
    {i \in 0..Len(rec.context) :
        OccursAt(rec.context, Normalize(MatchOf(rec)), i)}

\* C21: an item matched verbatim is matched at the lowest offset at which
\* its normalized match string occurs in the normalized paragraph text, and
\* the item gets no second rewrite in that paragraph, so none of the later
\* occurrences is matched by it.
C21_FirstOccurrence ==
    /\ \A i \in DOMAIN applied :
          applied[i].kind = "exact" =>
              /\ applied[i].start \in Occurrences(applied[i])
              /\ \A o \in Occurrences(applied[i]) : applied[i].start <= o
    /\ \A i, j \in DOMAIN applied :
          ( /\ applied[i].item = applied[j].item
            /\ applied[i].para = applied[j].para ) => i = j

\* C21 witness: an item applied verbatim whose non-empty match string
\* occurs more than once in the paragraph.
C21_Witness ==
    \E i \in DOMAIN applied :
        /\ applied[i].kind = "exact"
        /\ Normalize(MatchOf(applied[i])) # <<>>
        /\ Cardinality(Occurrences(applied[i])) > 1

\* C22 (as claimed): the fuzzy branch decides only for a normalized match
\* string of at least 8 characters: no item with a shorter one is matched
\* to a paragraph that does not hold it verbatim.
C22_MinimumFuzzyLength ==
    \A i \in DOMAIN applied :
        Len(Normalize(MatchOf(applied[i]))) < 8 =>
            /\ applied[i].kind = "exact"
            /\ VerbatimIn(applied[i])

\* the match strings of the input items are pairwise distinct and each is
\* equal to its whitespace-normalized form
DistinctNormalizedItems ==
    /\ \A i, j \in DOMAIN all_matches :
          all_matches[i].match = all_matches[j].match => i = j
    /\ \A i \in DOMAIN all_matches :
          Normalize(all_matches[i].match) = all_matches[i].match

\* C23: when the match strings are pairwise distinct and already
\* whitespace-normalized, no item is applied twice, and at the end of the
\* run matches_found plus the size of the unmatched set is the number of
\* input items.
C23_ConditionalAccounting ==
    DistinctNormalizedItems =>
        /\ \A i, j \in DOMAIN applied :
              applied[i].item = applied[j].item => i = j
        /\ matches_found = Len(applied)
        /\ Finished =>
              matches_found + Cardinality(unmatched) = Len(all_matches)

\* C23 witness: a finished run on two distinct normalized items, one
\* applied and one reported unmatched.
C23_Witness ==
    /\ Finished
    /\ DistinctNormalizedItems
    /\ Len(all_matches) = 2
    /\ matches_found = 1
    /\ Cardinality(unmatched) = 1

\* paragraph.text, stripped and normalized, as it would be read after the
\* rewrite of a history record: the text before and after the match, and
\* the match itself when it was kept as a commented run
TextAfter(rec) ==
    Normalize(Strip(rec.before
                    \o (IF HasRevision(all_matches[rec.item].revision)
                        THEN <<>> ELSE rec.written)
                    \o rec.after))

\* C24: every item is matched against the text the paragraph had when the
\* document was loaded: the locals the matching reads are that text,
\* stripped or normalized, whatever rewrites were made before, and every
\* rewrite was located in it.
C24_NoCascading ==
    /\ pc = "match" =>
          /\ normalized_text = InputText(p)
          /\ text \in {Strip(ParagraphText(inputDoc[p])), InputText(p)}
    /\ \A i \in DOMAIN applied :
          applied[i].context = InputText(applied[i].para)

\* C24 witness: an item applied verbatim to a paragraph that an earlier
\* item's revision had already rewritten so that the paragraph, read again,
\* would no longer hold the match string.
C24_Witness ==
    \E i, j \in DOMAIN applied :
        /\ i < j
        /\ applied[i].para = applied[j].para
        /\ HasRevision(all_matches[applied[i].item].revision)
        /\ applied[j].kind = "exact"
        /\ Normalize(MatchOf(applied[j])) # <<>>
        /\ ~Contains(TextAfter(applied[i]), Normalize(MatchOf(applied[j])))

(***************************************************************************)
(* The pipelines of dspy_workflow_builder: ProcessingPipeline              *)
(* (lm_pipeline.py) and Pipeline (pipeline.py, with processors.py)         *)
(***************************************************************************)

\* the most steps of a PipelineConfig
MaxSteps == 2

\* output_commented_document is not running
DocIdle ==
    /\ doc = <<>>
    /\ all_matches = <<>>
    /\ match_threshold = DefaultThreshold
    /\ pc = "idle"
    /\ p = 1
    /\ k = 1
    /\ text = <<>>
    /\ normalized_text = <<>>
    /\ processed_matches = {}
    /\ matches_found = 0
    /\ unmatched = {}
    /\ saved = FALSE
    /\ output = <<>>
    /\ applied = <<>>
    /\ failed = <<>>
    /\ inputDoc = <<>>
    /\ settings = <<>>
    /\ track_calls = 0
    /\ output_path = "absent"

\* a step_type that is a string
StrType(v) == [enum |-> FALSE, value |-> v]

\* a step_type that is a member of an Enum class, with its value
EnumType(v) == [enum |-> TRUE, value |-> v]

\* the steps a config may list: step_type, output_key ('' merges the
\* result into data) and depends_on
StepConfigs ==
    { [step_type |-> StrType("section"), output_key |-> "k1",
       depends_on |-> {}],
      [step_type |-> StrType("review"), output_key |-> "k2",
       depends_on |-> {"k1"}],
      [step_type |-> EnumType("review"), output_key |-> "",
       depends_on |-> {"in"}],
      [step_type |-> StrType("document"), output_key |-> "",
       depends_on |-> {"r"}] }

\* the key __init__ registers a step's processor under:
\* ProcessingPipeline takes the value of an Enum member (lm_pipeline.py
\* line 137), Pipeline the step_type itself (pipeline.py line 41)
RegistrationKey(class, step_type) ==
    IF class = "ProcessingPipeline" /\ step_type.enum
    THEN StrType(step_type.value)
    ELSE step_type

\* self.processors after __init__: its keys
Registered(class, steps) ==
    {RegistrationKey(class, steps[i].step_type) : i \in DOMAIN steps}

\* `step.step_type not in self.processors`, negated: the lookup is by the
\* step_type itself, and a member of a plain Enum is not equal to a string
IsRegistered(step, keys) == step.step_type \in keys

\* a _validate_dependencies that reports nothing missing
DependenciesUnchecked(step, d) == {}

\* missing of _validate_dependencies
MissingDependencies(step, d) == {dep \in step.depends_on : dep \notin DOMAIN d}

\* what _process returns: a non-empty dict {"r": ...} or the empty dict
ProcessResults == {"dict", "empty"}

ResultKeys(result) == IF result = "dict" THEN {"r"} ELSE {}

\* the data dict execute is given
InitialData == [key \in {"in"} |-> [from |-> 0, result |-> "dict"]]

\* data after the result of step number i is stored (lines 176-179 of
\* lm_pipeline.py, 66-69 of pipeline.py)
Store(d, step, i, result) ==
    IF step.output_key # ""
    THEN [key \in {step.output_key} |-> [from |-> i, result |-> result]] @@ d
    ELSE [key \in ResultKeys(result) |-> [from |-> i, result |-> result]]
         @@ d

\* a pipeline built from a config, execute(data) entered
PipelineInit ==
    /\ DocIdle /\ ReviewIdle /\ WebIdle /\ UnicodeIdle
    /\ pipeline_class \in {"ProcessingPipeline", "Pipeline"}
    /\ config_steps \in SeqsUpTo(StepConfigs, MaxSteps)
    /\ config_validation \in BOOLEAN
    /\ processors = Registered(pipeline_class, config_steps)
    /\ data = InitialData
    /\ step_index = 1
    /\ execute_state = "run"
    /\ error = NoError
    /\ process_calls = <<>>
    /\ stored = <<>>

CurrentStep == config_steps[step_index]

Running == execute_state = "run" /\ step_index <= Len(config_steps)

\* execute ends with the exception of the given type
Raise(type, raised_by) ==
    /\ execute_state' = "raised"
    /\ error' = [type |-> type, raised_by |-> raised_by]
    /\ UNCHANGED <<pipeline_class, config_steps, config_validation,
                   processors, data, step_index, stored, docVars, reviewVars, webVars, unicodeVars>>

\* lines 164-165 (pipeline.py 55-56): no processor under the step_type
NotRegistered ==
    /\ Running
    /\ ~IsRegistered(CurrentStep, processors)
    /\ Raise("ValueError", "execute")
    /\ UNCHANGED process_calls

\* process -> _validate_dependencies raises; execute logs and re-raises
MissingDependency ==
    /\ Running
    /\ IsRegistered(CurrentStep, processors)
    /\ MissingDependencies(CurrentStep, data) # {}
    /\ Raise("ValueError", "process")
    /\ UNCHANGED process_calls

\* process reaches _process, which is given data
ProcessInvoked ==
    /\ Running
    /\ IsRegistered(CurrentStep, processors)
    /\ MissingDependencies(CurrentStep, data) = {}
    /\ process_calls' = Append(process_calls,
                               [step |-> step_index, keys |-> DOMAIN data])

\* processors.py lines 31-35: _post_process rejects an empty result
OutputInvalid ==
    /\ ProcessInvoked
    /\ pipeline_class = "Pipeline"
    /\ Raise("ValueError", "process")

\* pipeline.py line 63 with validation on: the processors of
\* processors.py define _validate_output, not validate_output
ValidateOutputMissing ==
    /\ ProcessInvoked
    /\ pipeline_class = "Pipeline"
    /\ config_validation
    /\ Raise("AttributeError", "execute")

\* the step is validated where it can be and its result is stored
StoreResult(result) ==
    /\ ProcessInvoked
    /\ pipeline_class = "Pipeline" => (result = "dict" /\ ~config_validation)
    /\ data' = Store(data, CurrentStep, step_index, result)
    /\ stored' = Append(stored, [step |-> step_index, result |-> result])
    /\ step_index' = step_index + 1
    /\ UNCHANGED <<pipeline_class, config_steps, config_validation,
                   processors, execute_state, error, docVars, reviewVars, webVars, unicodeVars>>

\* line 188 (pipeline.py 78): return data
Return ==
    /\ execute_state = "run"
    /\ step_index > Len(config_steps)
    /\ execute_state' = "returned"
    /\ UNCHANGED <<pipeline_class, config_steps, config_validation,
                   processors, data, step_index, error, process_calls,
                   stored, docVars, reviewVars, webVars, unicodeVars>>

PipelineNext ==
    \/ NotRegistered
    \/ MissingDependency
    \/ OutputInvalid
    \/ ValidateOutputMissing
    \/ \E result \in ProcessResults : StoreResult(result)
    \/ Return

PipelineSpec == PipelineInit /\ [][PipelineNext]_vars


(***************************************************************************)
(* C25-C27: the pipelines                                                  *)
(***************************************************************************)

\* C25: for every step of the config, whether its step_type is a string
\* or an Enum member, execute finds the processor __init__ registered:
\* it never raises "No processor registered for step type".
C25_ProcessorLookup ==
    ~(execute_state = "raised"
      /\ error = [type |-> "ValueError", raised_by |-> "execute"])

\* the steps before the current one, as numbers
StepsBefore(i) == 1 .. (i - 1)

\* the keys a step sees: those execute was given and the outputs of the
\* steps before it
KeysBefore(i) ==
    DOMAIN InitialData
    \cup UNION {IF config_steps[j].output_key # ""
                THEN {config_steps[j].output_key}
                ELSE ResultKeys(stored[j].result) : j \in StepsBefore(i)}

\* C26: execute runs the steps in list order, a step sees only the
\* outputs of the steps before it, and with validation on, every
\* processor registered, every dependency present and every result a
\* non-empty dict, execute does not end with an exception; when it
\* returns, every step's result is in data under its output_key.
C26_ExecuteInOrder ==
    /\ \A i \in DOMAIN process_calls :
          /\ process_calls[i].step = i
          /\ process_calls[i].keys = KeysBefore(i)
    /\ (execute_state = "raised" /\ config_validation)
          => \/ error.raised_by = "process"
             \/ ~IsRegistered(CurrentStep, processors)
    /\ execute_state = "returned"
          => \A i \in DOMAIN config_steps :
                config_steps[i].output_key # ""
                   => /\ config_steps[i].output_key \in DOMAIN data
                      /\ data[config_steps[i].output_key].from >= i

\* a depends_on key of the current step is absent from data
DependencyAbsent ==
    \E dep \in CurrentStep.depends_on : dep \notin DOMAIN data

\* C27: when the current step has a processor and one of its depends_on
\* keys is absent from data, the only step execute takes ends it with a
\* ValueError, without a call of _process and with data as it was; once
\* execute has raised, nothing of the pipeline changes any more.
C27_DependencyFailFast ==
    [][/\ (Running /\ IsRegistered(CurrentStep, processors)
             /\ DependencyAbsent)
          => /\ execute_state' = "raised"
             /\ error'.type = "ValueError"
             /\ process_calls' = process_calls
             /\ stored' = stored
             /\ data' = data
       /\ execute_state = "raised" => UNCHANGED pipelineVars]_vars

\* a second step stopped by an absent dependency after the first was stored
C27_Witness ==
    /\ execute_state = "raised"
    /\ error = [type |-> "ValueError", raised_by |-> "process"]
    /\ step_index = 2
    /\ Len(stored) = 1
    /\ Len(process_calls) = 1
    /\ DependencyAbsent


(***************************************************************************)
(* SectionReviewer._process_review_items (llm/reviewer.py lines 274-302)   *)
(***************************************************************************)

\* the most items of a parsed review
MaxReviewItems == 2

\* JSON values as json.loads gives them: a string, null, a boolean, or a
\* key that is not in the dict
JStr(s) == [kind |-> "str", s |-> s, b |-> FALSE]
JNull == [kind |-> "null", s |-> <<>>, b |-> FALSE]
JBool(b) == [kind |-> "bool", s |-> <<>>, b |-> b]
JAbsent == [kind |-> "absent", s |-> <<>>, b |-> FALSE]

\* item.get(key, default)
Get(value, default) == IF value.kind = "absent" THEN default ELSE value

\* str(value)
PyStr(value) ==
    CASE value.kind = "str" -> value.s
      [] value.kind = "null" -> <<"N", "o", "n", "e">>
      [] value.kind = "bool" ->
            IF value.b THEN <<"T", "r", "u", "e">>
            ELSE <<"F", "a", "l", "s", "e">>

\* the truth value Python gives a JSON value
Truthy(value) ==
    CASE value.kind = "str" -> value.s # <<>>
      [] value.kind = "bool" -> value.b
      [] OTHER -> FALSE

\* an entry of review_items that is a dict
DictItem(match_text, comment, revision, comment_only) ==
    [dict |-> TRUE, match_text |-> match_text, comment |-> comment,
     revision |-> revision, comment_only |-> comment_only]

\* an entry of review_items that is not a dict: item.get raises
NotADict == [dict |-> FALSE, match_text |-> JAbsent, comment |-> JAbsent,
             revision |-> JAbsent, comment_only |-> JAbsent]

ParsedItems ==
    { DictItem(JStr(<<" ", "a", " ", "b", " ">>), JStr(<<"c">>),
               JStr(<<"r">>), JBool(FALSE)),
      DictItem(JStr(<<"a", " ", "b">>), JStr(<<"d">>), JStr(<<"r">>),
               JBool(TRUE)),
      DictItem(JStr(<<"a">>), JAbsent, JAbsent, JAbsent),
      DictItem(JStr(<<"z">>), JStr(<<"c">>), JStr(<<"r">>), JBool(FALSE)),
      DictItem(JStr(<<" ", " ">>), JStr(<<"c">>), JStr(<<"r">>), JAbsent),
      DictItem(JNull, JStr(<<"c">>), JNull, JAbsent),
      NotADict }

SectionTexts ==
    { <<"x", " ", "a", " ", "b">>,
      <<"N", "o", "n", "e", " ", "a">> }

\* match_text of line 285
MatchText(item) == Strip(PyStr(Get(item.match_text, JStr(<<>>))))

\* the test of line 287
Includable(item, section) ==
    MatchText(item) # <<>> /\ Contains(section, MatchText(item))

\* a revision entry that is the revision whatever comment_only says
RevisionEntryVerbatim(item) == PyStr(Get(item.revision, JStr(<<>>)))

\* the entry line 297 appends to revisions
RevisionEntry(item) ==
    IF ~Truthy(Get(item.comment_only, JBool(FALSE)))
       /\ PyStr(Get(item.revision, JStr(<<>>))) # <<>>
    THEN PyStr(Get(item.revision, JStr(<<>>)))
    ELSE <<>>

\* _process_review_items is entered with its two arguments
ReviewInit ==
    /\ DocIdle /\ PipelineIdle /\ WebIdle /\ UnicodeIdle
    /\ parsed_response \in [valid : BOOLEAN,
                            items : SeqsUpTo(ParsedItems, MaxReviewItems)]
    /\ section_text \in SectionTexts
    /\ item_index = 1
    /\ review_items = EmptyReview
    /\ included = <<>>
    /\ review_state = "parse"

\* json.loads or parsed_response.get raises: the except branch logs it
ParseRaises ==
    /\ review_state = "parse"
    /\ ~parsed_response.valid
    /\ review_state' = "returned"
    /\ UNCHANGED <<parsed_response, section_text, item_index, review_items,
                   included, docVars, pipelineVars, webVars, unicodeVars>>

\* line 282: the response is parsed and the loop is entered
ParseReturns ==
    /\ review_state = "parse"
    /\ parsed_response.valid
    /\ review_state' = "loop"
    /\ UNCHANGED <<parsed_response, section_text, item_index, review_items,
                   included, docVars, pipelineVars, webVars, unicodeVars>>

AtReviewItem ==
    /\ review_state = "loop"
    /\ item_index <= Len(parsed_response.items)

CurrentReviewItem == parsed_response.items[item_index]

\* item.get raises inside the loop: the except branch ends the loop
ItemRaises ==
    /\ AtReviewItem
    /\ ~CurrentReviewItem.dict
    /\ review_state' = "returned"
    /\ UNCHANGED <<parsed_response, section_text, item_index, review_items,
                   included, docVars, pipelineVars, webVars, unicodeVars>>

\* lines 287-297: the three appends
IncludeItem ==
    /\ AtReviewItem
    /\ CurrentReviewItem.dict
    /\ Includable(CurrentReviewItem, section_text)
    /\ review_items' =
          [match_strings |-> Append(review_items.match_strings,
                                    MatchText(CurrentReviewItem)),
           comments |-> Append(review_items.comments,
                               PyStr(Get(CurrentReviewItem.comment,
                                         JStr(<<>>)))),
           revisions |-> Append(review_items.revisions,
                                RevisionEntry(CurrentReviewItem))]
    /\ included' = Append(included, item_index)
    /\ item_index' = item_index + 1
    /\ UNCHANGED <<parsed_response, section_text, review_state,
                   docVars, pipelineVars, webVars, unicodeVars>>

\* line 287 is false: the item is left out
LeaveOutItem ==
    /\ AtReviewItem
    /\ CurrentReviewItem.dict
    /\ ~Includable(CurrentReviewItem, section_text)
    /\ item_index' = item_index + 1
    /\ UNCHANGED <<parsed_response, section_text, review_items, included,
                   review_state, docVars, pipelineVars, webVars, unicodeVars>>

\* line 302: return review_items
ReturnReview ==
    /\ review_state = "loop"
    /\ item_index > Len(parsed_response.items)
    /\ review_state' = "returned"
    /\ UNCHANGED <<parsed_response, section_text, item_index, review_items,
                   included, docVars, pipelineVars, webVars, unicodeVars>>

ReviewNext ==
    \/ ParseRaises
    \/ ParseReturns
    \/ ItemRaises
    \/ IncludeItem
    \/ LeaveOutItem
    \/ ReturnReview

ReviewSpec == ReviewInit /\ [][ReviewNext]_vars

\* C28: the three lists have equal length and entry j of each is of the
\* same item, taken in the order of the response; an item is in the lists
\* only if its stripped match_text is non-empty and occurs in the section
\* text; the revision entry of a comment_only item is ''; and when the
\* function has returned, after an exception or not, the lists hold every
\* includable item before the first item that raised.
C28_ReviewListsAligned ==
    /\ Len(review_items.match_strings) = Len(included)
    /\ Len(review_items.comments) = Len(included)
    /\ Len(review_items.revisions) = Len(included)
    /\ \A j \in DOMAIN included :
          /\ included[j] \in DOMAIN parsed_response.items
          /\ \A h \in DOMAIN included : h < j => included[h] < included[j]
          /\ review_items.match_strings[j]
                = Strip(PyStr(Get(parsed_response.items[included[j]].match_text,
                                  JStr(<<>>))))
          /\ review_items.comments[j]
                = PyStr(Get(parsed_response.items[included[j]].comment,
                            JStr(<<>>)))
          /\ review_items.revisions[j]
                \in {<<>>,
                     PyStr(Get(parsed_response.items[included[j]].revision,
                               JStr(<<>>)))}
          /\ review_items.match_strings[j] # <<>>
          /\ Contains(section_text, review_items.match_strings[j])
          /\ parsed_response.items[included[j]].comment_only = JBool(TRUE)
                => review_items.revisions[j] = <<>>
    /\ review_state = "returned"
          => \A n \in DOMAIN parsed_response.items :
                (/\ parsed_response.valid
                 /\ \A h \in 1 .. n : parsed_response.items[h].dict
                 /\ Includable(parsed_response.items[n], section_text))
                   => \E j \in DOMAIN included : included[j] = n

\* a comment_only item with a revision was included, then an item raised
C28_Witness ==
    /\ review_state = "returned"
    /\ included = <<1>>
    /\ Len(parsed_response.items) = 2
    /\ ~parsed_response.items[2].dict
    /\ parsed_response.items[1].comment_only = JBool(TRUE)
    /\ parsed_response.items[1].revision = JStr(<<"r">>)


(***************************************************************************)
(* The web API of main.py: upload_document, process_document,              *)
(* get_document and get_document_status over uploaded_files                *)
(***************************************************************************)

\* the most files uploaded
MaxFiles == 2

\* the file ids a request may name: those upload_document may have given
\* out and one it never gives out; NoFileId is a request without fileId
NoFileId == 0

RequestIds == 0 .. (MaxFiles + 1)

\* the application has started (line 25)
WebInit ==
    /\ DocIdle /\ PipelineIdle /\ ReviewIdle /\ UnicodeIdle
    /\ uploaded_files = <<>>
    /\ response = NoResponse

Answer(endpoint, file_id, code) ==
    [endpoint |-> endpoint, file_id |-> file_id, code |-> code]

\* `file_id not in uploaded_files`, negated
Known(file_id) == file_id \in DOMAIN uploaded_files

\* lines 33-53: the file is written and its info stored under a new id
UploadDocument ==
    /\ Len(uploaded_files) < MaxFiles
    /\ uploaded_files' =
          Append(uploaded_files,
                 [status |-> "uploaded", output_path |-> FALSE,
                  error |-> FALSE])
    /\ response' = Answer("upload_document", Len(uploaded_files) + 1, 200)
    /\ UNCHANGED <<docVars, pipelineVars, reviewVars, unicodeVars>>

\* lines 31-41 raise before the info is stored: HTTP 400
UploadRaises ==
    /\ response' = Answer("upload_document", NoFileId, 400)
    /\ UNCHANGED <<uploaded_files, docVars, pipelineVars, reviewVars, unicodeVars>>

\* line 64: no fileId or an unknown one
ProcessNotFound(file_id) ==
    /\ file_id = NoFileId \/ ~Known(file_id)
    /\ response' = Answer("process_document", file_id, 404)
    /\ UNCHANGED <<uploaded_files, docVars, pipelineVars, reviewVars, unicodeVars>>

\* lines 72-93: review_paper returns
ProcessSucceeds(file_id) ==
    /\ file_id # NoFileId /\ Known(file_id)
    /\ uploaded_files' =
          [uploaded_files EXCEPT ![file_id].output_path = TRUE,
                                 ![file_id].status = "processed"]
    /\ response' = Answer("process_document", file_id, 200)
    /\ UNCHANGED <<docVars, pipelineVars, reviewVars, unicodeVars>>

\* lines 96-99: an exception of lines 72-85
ProcessRaises(file_id) ==
    /\ file_id # NoFileId /\ Known(file_id)
    /\ uploaded_files' =
          [uploaded_files EXCEPT ![file_id].status = "error",
                                 ![file_id].error = TRUE]
    /\ response' = Answer("process_document", file_id, 500)
    /\ UNCHANGED <<docVars, pipelineVars, reviewVars, unicodeVars>>

\* a get_document that serves every file with an output_path
ServableWithOutput(file_info) == file_info.output_path

\* line 109: file_info["status"] == "processed"
Servable(file_info) == file_info.status = "processed"

\* the status code of get_document; file_exists is os.path.exists
GetDocumentCode(file_id, file_exists) ==
    IF ~Known(file_id) THEN 404
    ELSE IF ~Servable(uploaded_files[file_id]) THEN 400
    ELSE IF ~file_exists THEN 404
    ELSE 200

GetDocument(file_id) ==
    /\ file_id # NoFileId
    /\ \E file_exists \in BOOLEAN :
          response' = Answer("get_document", file_id,
                             GetDocumentCode(file_id, file_exists))
    /\ UNCHANGED <<uploaded_files, docVars, pipelineVars, reviewVars, unicodeVars>>

\* lines 135-143
GetDocumentStatus(file_id) ==
    /\ file_id # NoFileId
    /\ response' = Answer("get_document_status", file_id,
                          IF Known(file_id) THEN 200 ELSE 404)
    /\ UNCHANGED <<uploaded_files, docVars, pipelineVars, reviewVars, unicodeVars>>

WebNext ==
    \/ UploadDocument
    \/ UploadRaises
    \/ \E file_id \in RequestIds : ProcessNotFound(file_id)
    \/ \E file_id \in RequestIds : ProcessSucceeds(file_id)
    \/ \E file_id \in RequestIds : ProcessRaises(file_id)
    \/ \E file_id \in RequestIds : GetDocument(file_id)
    \/ \E file_id \in RequestIds : GetDocumentStatus(file_id)

WebSpec == WebInit /\ [][WebNext]_vars

\* C29: a new entry has status 'uploaded'; an entry's status changes only
\* in process_document of that file id, to 'processed' with answer 200 or
\* to 'error' with answer 500; an entry with status 'processed' has its
\* output_path; get_document answers 200 only for an entry whose status
\* is 'processed' and 400 for any other entry; and a request for an
\* unknown file id is answered 404 and changes no entry.
C29_DocumentStatus ==
    [][/\ \A id \in DOMAIN uploaded_files' :
             /\ ~Known(id) => uploaded_files'[id].status = "uploaded"
             /\ uploaded_files'[id].status = "processed"
                   => uploaded_files'[id].output_path
             /\ (Known(id)
                 /\ uploaded_files'[id].status # uploaded_files[id].status)
                   => /\ response'.endpoint = "process_document"
                      /\ response'.file_id = id
                      /\ \/ /\ uploaded_files'[id].status = "processed"
                            /\ response'.code = 200
                         \/ /\ uploaded_files'[id].status = "error"
                            /\ response'.code = 500
       /\ DOMAIN uploaded_files \subseteq DOMAIN uploaded_files'
       /\ (response'.endpoint = "get_document" /\ Known(response'.file_id))
             => IF uploaded_files[response'.file_id].status = "processed"
                THEN response'.code \in {200, 404}
                ELSE response'.code = 400
       /\ (response'.endpoint
              \in {"process_document", "get_document", "get_document_status"}
           /\ ~Known(response'.file_id))
             => /\ response'.code = 404
                /\ uploaded_files' = uploaded_files]_vars

\* a processed file was served while another file's entry, once
\* processed, is in status 'error'
C29_Witness ==
    /\ Len(uploaded_files) = 2
    /\ uploaded_files[1].status = "processed"
    /\ uploaded_files[2] = [status |-> "error", output_path |-> TRUE,
                            error |-> TRUE]
    /\ response = Answer("get_document", 1, 200)


(***************************************************************************)
(* normalize_unicode (documents/text_utils.py lines 4-71).  A character    *)
(* is written as itself when it is ASCII and as its code point otherwise.  *)
(***************************************************************************)

\* the most fragments an input text is made of
MaxFragments == 3

\* the keys of math_symbols (lines 7-51)
MathSymbols ==
    {"U+00B1", "U+00B0", "U+2265", "U+2264", "U+2192", "U+2190", "U+2194",
     "U+2260", "U+221E", "U+2211", "U+220F", "U+221A", "U+222B", "U+03C0",
     "U+03BC", "U+03B1", "U+03B2", "U+03B3", "U+03B4", "U+03B5", "U+03B8",
     "U+03BB", "U+03C3", "U+03C4", "U+03C6", "U+03C9", "U+0394", "U+00D7",
     "U+00F7", "U+2248", "U+2261", "U+221D", "U+2202", "U+2207", "U+2208",
     "U+2209", "U+220B", "U+220C", "U+2229", "U+222A"}

\* math_symbols[symbol]: the literal '\uXXXX' of a non-raw Python string
\* is the one character XXXX
EscapeSeq(symbol) == <<symbol>>

\* the loop of lines 54-55 over a text
RECURSIVE ReplaceSymbols(_)
ReplaceSymbols(s) ==
    IF s = <<>> THEN <<>>
    ELSE (IF Head(s) \in MathSymbols THEN EscapeSeq(Head(s)) ELSE <<Head(s)>>)
         \o ReplaceSymbols(Tail(s))

\* the compatibility decomposition of one character (Unicode character
\* database): e with acute, not equal to, not an element of, does not
\* contain as member, micro sign
Decompose(c) ==
    CASE c = "U+00E9" -> <<"e", "U+0301">>
      [] c = "U+2260" -> <<"=", "U+0338">>
      [] c = "U+2209" -> <<"U+2208", "U+0338">>
      [] c = "U+220C" -> <<"U+220B", "U+0338">>
      [] c = "U+00B5" -> <<"U+03BC">>
      [] OTHER -> <<c>>

\* unicodedata.normalize('NFKD', s); no text of InputTexts puts two
\* combining characters of decreasing class side by side, so that the
\* canonical ordering moves nothing
RECURSIVE NFKD(_)
NFKD(s) == IF s = <<>> THEN <<>> ELSE Decompose(Head(s)) \o NFKD(Tail(s))

\* unicodedata.combining(c) # 0: combining acute accent and combining
\* long solidus overlay
Combining(c) == c \in {"U+0301", "U+0338"}

Fragments ==
    { <<"a">>, <<"U+00E9">>, <<"U+2260">>, <<"U+03C0">>, <<"U+00B5">>,
      <<"U+0301">>, <<"\\", "u", "2", "2", "6", "0">>, <<"\\", "u">> }

RECURSIVE Flatten(_)
Flatten(ss) == IF ss = <<>> THEN <<>> ELSE Head(ss) \o Flatten(Tail(ss))

InputTexts == {Flatten(ss) : ss \in SeqsUpTo(Fragments, MaxFragments)}

\* normalize_unicode(text) is called
UnicodeInit ==
    /\ DocIdle /\ PipelineIdle /\ ReviewIdle /\ WebIdle
    /\ unicode_input \in InputTexts
    /\ unicode_normalized = <<>>
    /\ unicode_i = 0
    /\ unicode_result = <<>>
    /\ unicode_state = "call"

\* lines 54-58
DecomposeText ==
    /\ unicode_state = "call"
    /\ unicode_normalized' = NFKD(ReplaceSymbols(unicode_input))
    /\ unicode_state' = "loop"
    /\ UNCHANGED <<unicode_input, unicode_i, unicode_result, docVars, pipelineVars, reviewVars, webVars>>

InLoop == unicode_state = "loop" /\ unicode_i < Len(unicode_normalized)

\* normalized[i:i+6].startswith('\\u')
AtEscape == Slice(unicode_normalized, unicode_i, unicode_i + 2) = <<"\\", "u">>

\* lines 64-66 and 69: the slice is appended, i += 6 and then i += 1
AppendEscape ==
    /\ InLoop
    /\ AtEscape
    /\ unicode_result' =
          unicode_result \o Slice(unicode_normalized, unicode_i, unicode_i + 6)
    /\ unicode_i' = unicode_i + 6 + 1
    /\ UNCHANGED <<unicode_input, unicode_normalized, unicode_state,
                   docVars, pipelineVars, reviewVars, webVars>>

\* lines 67-69: a character that is not combining is appended
AppendCharacter ==
    /\ InLoop
    /\ ~AtEscape
    /\ ~Combining(unicode_normalized[unicode_i + 1])
    /\ unicode_result' =
          Append(unicode_result, unicode_normalized[unicode_i + 1])
    /\ unicode_i' = unicode_i + 1
    /\ UNCHANGED <<unicode_input, unicode_normalized, unicode_state,
                   docVars, pipelineVars, reviewVars, webVars>>

\* lines 67 and 69: a combining character is passed over
DropCombining ==
    /\ InLoop
    /\ ~AtEscape
    /\ Combining(unicode_normalized[unicode_i + 1])
    /\ unicode_i' = unicode_i + 1
    /\ UNCHANGED <<unicode_input, unicode_normalized, unicode_result,
                   unicode_state, docVars, pipelineVars, reviewVars, webVars>>

\* line 71
ReturnResult ==
    /\ unicode_state = "loop"
    /\ unicode_i >= Len(unicode_normalized)
    /\ unicode_state' = "returned"
    /\ UNCHANGED <<unicode_input, unicode_normalized, unicode_i,
                   unicode_result, docVars, pipelineVars, reviewVars, webVars>>

UnicodeNext ==
    \/ DecomposeText
    \/ AppendEscape
    \/ AppendCharacter
    \/ DropCombining
    \/ ReturnResult

UnicodeSpec == UnicodeInit /\ [][UnicodeNext]_vars

\* a text with its combining characters removed, the others in order
RECURSIVE WithoutCombining(_)
WithoutCombining(s) ==
    IF s = <<>> THEN <<>>
    ELSE (IF Combining(Head(s)) THEN <<>> ELSE <<Head(s)>>)
         \o WithoutCombining(Tail(s))

\* the number of times c is in s
RECURSIVE Count(_, _)
Count(s, c) ==
    IF s = <<>> THEN 0
    ELSE (IF Head(s) = c THEN 1 ELSE 0) + Count(Tail(s), c)

\* C30: the text normalize_unicode returns is the NFKD form of its
\* argument without the combining characters, every other character in
\* order, and every symbol of math_symbols in the argument is still in
\* it.
C30_DropsCombiningOnly ==
    unicode_state = "returned"
       => /\ unicode_result = WithoutCombining(NFKD(unicode_input))
          /\ \A c \in MathSymbols :
                Count(unicode_result, c) >= Count(unicode_input, c)

====
